---- MODULE Spec2Model ----
(***************************************************************************)
(* Case-Tracker: the calendar (CalendarView + AppointmentForm) and the     *)
(* document store (DocumentProvider / useDocuments and its consumers),     *)
(* modelled as state machines of their event handlers.                     *)
(*                                                                         *)
(* Conventions.  A value that may be null / undefined is a sequence of     *)
(* length 0 (null) or 1 (the value).  A string the code inspects           *)
(* character by character (a title) is a sequence of one-character         *)
(* strings; other strings are TLA+ strings.  A Date is its time value: a   *)
(* number, or InvalidDate for the NaN of `new Date('')`.                   *)
(***************************************************************************)
EXTENDS Integers, Sequences, FiniteSets, TLC

(***************************************************************************)
(* Bounds of the model.                                                    *)
(***************************************************************************)
\* longest title typed into the editor
MaxTitleLen == 1
\* instants are 0..MaxTime
MaxTime == 1
\* Date.now() ranges over 0..MaxClock
MaxClock == 1
\* the create entry point is offered while the collection is shorter
MaxAppointments == 2
\* how many of the four mock appointments the collection starts with
NumInitial == 1
\* documents are added while the store holds fewer
MaxDocuments == 5
\* files picked for upload in a run
MaxUploads == 2
\* updates of the upload tracking list queued and not yet processed
MaxQueued == 2
\* pages of a previewed PDF file
MaxPages == 3
\* consecutive zoom-ins that are counted
MaxStreak == 12

VARIABLES
    \* CalendarView state (CalendarView.tsx:26-31)
    appointments, showModal, selectedAppointment, selectedSlot,
    \* AppointmentForm state (part_000:20-32); exists while the form is mounted
    formData, errors,
    \* the last value Date.now() returned
    now,
    \* observation: the last handler that ran and the callbacks it invoked
    ev,
    \* observation: the collection as it was when the editor was last opened
    atOpen,
    \* DocumentProvider state (DocumentContex.tsx:77-78)
    documents, selectedDocument,
    \* observation: the last document-store operation and what it returned
    docEv,
    \* DocumentUpload state (DocumentUpload.tsx:18): the tracking list
    uploadFiles,
    \* the File objects picked so far, in order: the n-th is what the n-th
    \* simulateUpload call closed over
    picked,
    \* the ids whose setInterval timer has not been cleared
    intervals,
    \* the updaters handed to setUploadFiles that React has not yet processed
    updateQueue,
    \* DocumentUpload state (DocumentUpload.tsx:19-23): the metadata form
    metadata,
    \* the metadata value each simulateUpload call closed over, in the order
    \* of the calls: the n-th belongs to the n-th picked file
    closureMetadata,
    \* observation: the last step of the upload flow
    upEv,
    \* DocumentList state (DocumentList.tsx:9-12)
    searchTerm, sortBy, sortOrder, filterType,
    \* observation: the last step of the list
    listEv,
    \* DocumentPreview state (DocumentPreview.tsx:12-15); it outlives a
    \* preview, the component staying mounted while nothing is selected
    numPages, pageNumber, scale, pdfError,
    \* whether the PDF of the open preview is still being loaded
    loading,
    \* how many pages the file of each PDF document has
    pageCounts,
    \* observation: the last step of the preview
    prevEv

calVars == <<appointments, showModal, selectedAppointment, selectedSlot,
             formData, errors, now, ev, atOpen>>

docVars == <<documents, selectedDocument, docEv>>

upVars == <<uploadFiles, picked, intervals, updateQueue, metadata,
           closureMetadata, upEv>>

listVars == <<searchTerm, sortBy, sortOrder, filterType, listEv>>

prevVars == <<numPages, pageNumber, scale, pdfError, loading, pageCounts,
              prevEv>>

vars == <<calVars, docVars, upVars, listVars, prevVars>>

\* what the calendar page's handlers leave alone, and the documents page's
nonCalVars == <<docVars, upVars, listVars, prevVars>>

nonDocVars == <<calVars, upVars, listVars, prevVars>>

\* what the upload flow leaves alone besides the store
nonUpVars == <<calVars, listVars, prevVars>>

\* what the list leaves alone besides the store
nonListVars == <<calVars, upVars, prevVars>>

\* what the preview leaves alone besides the store
nonPrevVars == <<calVars, upVars, listVars>>

(***************************************************************************)
(* Values.                                                                 *)
(***************************************************************************)
Null == <<>>
Some(x) == <<x>>

\* the time value of an Invalid Date (NaN)
InvalidDate == -1

Times == 0..MaxTime

Chars == {" ", "a"}

RECURSIVE StringsUpTo(_)
StringsUpTo(n) ==
    IF n = 0 THEN {<<>>}
    ELSE LET shorter == StringsUpTo(n - 1)
         IN  shorter \cup {Append(s, c) : s \in shorter, c \in Chars}

\* what the user can type into the title input
Titles == StringsUpTo(MaxTitleLen)

\* String.prototype.trim
IsSpace(c) == c = " "

RECURSIVE TrimStart(_)
TrimStart(s) ==
    IF s = <<>> THEN s
    ELSE IF IsSpace(Head(s)) THEN TrimStart(Tail(s)) ELSE s

RECURSIVE TrimEnd(_)
TrimEnd(s) ==
    IF s = <<>> THEN s
    ELSE IF IsSpace(s[Len(s)]) THEN TrimEnd(SubSeq(s, 1, Len(s) - 1)) ELSE s

Trim(s) == TrimEnd(TrimStart(s))

\* JavaScript's a >= b on two Dates: false as soon as one is NaN
DateGE(a, b) == a # InvalidDate /\ b # InvalidDate /\ a >= b

\* formatDateTimeLocal: the value shown in a datetime-local input
FormatDateTimeLocal(d) ==
    IF d = InvalidDate THEN "NaN-NaN-NaNTNaN:NaN"
    ELSE "2025-11-05T10:0" \o ToString(d)

\* what a datetime-local input can report: a well-formed value, or '' when
\* the user clears it
DateInputValues == {""} \cup {FormatDateTimeLocal(t) : t \in Times}

\* new Date(value)
NewDate(value) ==
    IF \E t \in Times : FormatDateTimeLocal(t) = value
    THEN CHOOSE t \in Times : FormatDateTimeLocal(t) = value
    ELSE InvalidDate

\* `apt-${Date.now()}`
AptId(t) == "apt-" \o ToString(t)

\* the mock appointments (id, title, start, end); titles abbreviated to a
\* non-blank word, dates to their order
mockAppointments ==
    << [id |-> "1", title |-> <<"a">>, start |-> 0, end |-> 1],
       [id |-> "2", title |-> <<"a">>, start |-> 0, end |-> 1],
       [id |-> "3", title |-> <<"a">>, start |-> 0, end |-> 1],
       [id |-> "4", title |-> <<"a">>, start |-> 0, end |-> 1] >>

\* the ranges the calendar grid offers
Slots == {[start |-> s, end |-> e] : s \in Times, e \in Times} \
         {sl \in [start : Times, end : Times] : sl.start >= sl.end}

FieldNames == {"title", "start", "end"}

NoErrors == [k \in {} |-> ""]

\* errors[name] is truthy
HasError(errs, name) == name \in DOMAIN errs /\ errs[name] # ""

\* the form's state while it is not mounted
Unmounted == [title |-> <<>>, start |-> InvalidDate, end |-> InvalidDate]

NoEvent == [op |-> "none", arg |-> "", onSave |-> <<>>, onDelete |-> <<>>]

Event(op, arg, saved, deleted) ==
    [op |-> op, arg |-> arg, onSave |-> saved, onDelete |-> deleted]

(***************************************************************************)
(* AppointmentForm.                                                        *)
(***************************************************************************)
\* (mutant) the effect's slot branch is missing: a new draft keeps the
\* useState defaults, start and end both the time of mounting
MountFormWithoutSlot(appointment, initialSlot) ==
    IF appointment # Null
    THEN [title |-> appointment[1].title,
          start |-> appointment[1].start,
          end   |-> appointment[1].end]
    ELSE IF initialSlot # Null
    THEN [title |-> <<>>, start |-> now, end |-> now]
    ELSE Unmounted

\* useState initial value followed by the useEffect that seeds the draft
MountForm(appointment, initialSlot) ==
    IF appointment # Null
    THEN [title |-> appointment[1].title,
          start |-> appointment[1].start,
          end   |-> appointment[1].end]
    ELSE IF initialSlot # Null
    THEN [title |-> <<>>,
          start |-> initialSlot[1].start,
          end   |-> initialSlot[1].end]
    ELSE Unmounted

\* validate: the errors it computes
ValidateErrors(fd) ==
    LET titleBad == Trim(fd.title) = <<>>
        endBad   == DateGE(fd.start, fd.end)
    IN  [k \in (IF titleBad THEN {"title"} ELSE {}) \cup
               (IF endBad THEN {"end"} ELSE {}) |->
            IF k = "title" THEN "Title is required"
            ELSE "End time must be after start time"]

\* (mutant) a change resets the whole error object
ClearEveryError(errs, name) ==
    IF HasError(errs, name) THEN NoErrors ELSE errs

\* handleInputChange's clearing of the changed field's error
ClearError(errs, name) ==
    IF HasError(errs, name)
    THEN [k \in DOMAIN errs \cup {name} |-> IF k = name THEN "" ELSE errs[k]]
    ELSE errs

\* (mutant) the id is synthesized even when a record is being edited
AppointmentToSaveNewId(appointment, fd, t) ==
    [id |-> AptId(t), title |-> fd.title, start |-> fd.start, end |-> fd.end]

\* the record handleSubmit builds
AppointmentToSave(appointment, fd, t) ==
    [id    |-> IF appointment # Null /\ appointment[1].id # ""
               THEN appointment[1].id ELSE AptId(t),
     title |-> fd.title,
     start |-> fd.start,
     end   |-> fd.end]

(***************************************************************************)
(* CalendarView.                                                           *)
(***************************************************************************)
\* handleSaveAppointment's update of the collection
SavedCollection(prev, selected, appointment) ==
    IF selected # Null
    THEN [i \in 1..Len(prev) |->
             IF prev[i].id = appointment.id THEN appointment ELSE prev[i]]
    ELSE Append(prev, appointment)

\* (mutant) the prompt's answer is ignored
ShouldDeleteUnasked(appointment, confirmed) == appointment # Null

\* handleDelete's guard: the editor is on a record and the prompt is confirmed
ShouldDelete(appointment, confirmed) == appointment # Null /\ confirmed

\* handleDeleteAppointment's update of the collection
DeletedCollection(prev, id) ==
    LET Keep(apt) == apt.id # id
    IN  SelectSeq(prev, Keep)

CalInit ==
    /\ appointments = SubSeq(mockAppointments, 1, NumInitial)
    /\ showModal = FALSE
    /\ selectedAppointment = Null
    /\ selectedSlot = Null
    /\ formData = Unmounted
    /\ errors = NoErrors
    /\ now = 0
    /\ ev = NoEvent
    /\ atOpen = <<>>

\* the calendar grid lies under the modal overlay, whose clicks close the
\* editor (part_000:125): a range or an entry is selected while it is closed
HandleSelectSlot(slotInfo) ==
    /\ ~showModal
    /\ Len(appointments) < MaxAppointments
    /\ selectedSlot' = Some(slotInfo)
    /\ selectedAppointment' = Null
    /\ showModal' = TRUE
    /\ formData' = MountForm(Null, Some(slotInfo))
    /\ errors' = NoErrors
    /\ atOpen' = appointments
    /\ ev' = Event("handleSelectSlot", "", <<>>, <<>>)
    /\ UNCHANGED <<appointments, now>>

HandleSelectEvent(i) ==
    /\ ~showModal
    /\ selectedAppointment' = Some(appointments[i])
    /\ selectedSlot' = Null
    /\ showModal' = TRUE
    /\ formData' = MountForm(Some(appointments[i]), Null)
    /\ errors' = NoErrors
    /\ atOpen' = appointments
    /\ ev' = Event("handleSelectEvent", "", <<>>, <<>>)
    /\ UNCHANGED <<appointments, now>>

HandleInputChange(name, value) ==
    /\ showModal
    /\ formData' = IF name = "start" \/ name = "end"
                   THEN [formData EXCEPT ![name] = NewDate(value)]
                   ELSE [formData EXCEPT ![name] = value]
    /\ errors' = ClearError(errors, name)
    /\ ev' = Event("handleInputChange", "", <<>>, <<>>)
    /\ UNCHANGED <<appointments, showModal, selectedAppointment, selectedSlot,
                   now, atOpen>>

\* handleSubmit, with validate and, on success, handleSaveAppointment (the
\* onSave prop), after which the form is unmounted.  t is what Date.now()
\* returns when the id is synthesized: time has moved on from the last
\* reading, or not
HandleSubmit(t) ==
    /\ showModal
    /\ LET newErrors == ValidateErrors(formData)
           toSave    == AppointmentToSave(selectedAppointment, formData, t)
       IN  IF DOMAIN newErrors # {}
           THEN /\ t = now
                /\ errors' = newErrors
                /\ ev' = Event("handleSubmit", "", <<>>, <<>>)
                /\ UNCHANGED <<appointments, showModal, selectedAppointment,
                               selectedSlot, formData, now, atOpen>>
           ELSE /\ IF selectedAppointment # Null /\ selectedAppointment[1].id # ""
                   THEN t = now
                   ELSE t >= now
                /\ now' = t
                /\ appointments' =
                       SavedCollection(appointments, selectedAppointment, toSave)
                /\ showModal' = FALSE
                /\ selectedAppointment' = Null
                /\ selectedSlot' = Null
                /\ formData' = Unmounted
                /\ errors' = NoErrors
                /\ atOpen' = <<>>
                /\ ev' = Event("handleSubmit", "", <<toSave>>, <<>>)

\* handleDelete, with window.confirm's answer (the prompt is put only when
\* the editor is on a record) and, when it goes ahead,
\* handleDeleteAppointment (the onDelete prop)
HandleDelete(confirmed) ==
    /\ showModal
    /\ LET answer == IF selectedAppointment = Null THEN "no prompt"
                     ELSE IF confirmed THEN "confirmed" ELSE "declined"
       IN  IF ShouldDelete(selectedAppointment, confirmed)
           THEN /\ appointments' =
                       DeletedCollection(appointments, selectedAppointment[1].id)
                /\ showModal' = FALSE
                /\ selectedAppointment' = Null
                /\ formData' = Unmounted
                /\ errors' = NoErrors
                /\ atOpen' = <<>>
                /\ ev' = Event("handleDelete", answer, <<>>,
                               <<selectedAppointment[1].id>>)
                /\ UNCHANGED selectedSlot
           ELSE /\ ev' = Event("handleDelete", answer, <<>>, <<>>)
                /\ UNCHANGED <<appointments, showModal, selectedAppointment,
                               selectedSlot, formData, errors, atOpen>>
    /\ UNCHANGED now

\* handleCloseModal (the onClose prop: overlay, close button, Cancel)
HandleCloseModal ==
    /\ showModal
    /\ showModal' = FALSE
    /\ selectedAppointment' = Null
    /\ selectedSlot' = Null
    /\ formData' = Unmounted
    /\ errors' = NoErrors
    /\ atOpen' = <<>>
    /\ ev' = Event("handleCloseModal",
                   IF \E name \in FieldNames : HasError(errors, name)
                   THEN "errors shown" ELSE "no errors shown", <<>>, <<>>)
    /\ UNCHANGED <<appointments, now>>

SelectSlot ==
    /\ \E slotInfo \in Slots : HandleSelectSlot(slotInfo)
    /\ UNCHANGED nonCalVars

SelectEvent ==
    /\ \E i \in 1..Len(appointments) : HandleSelectEvent(i)
    /\ UNCHANGED nonCalVars

InputChange ==
    /\ \/ \E value \in Titles : HandleInputChange("title", value)
       \/ \E name \in {"start", "end"}, value \in DateInputValues :
             HandleInputChange(name, value)
    /\ UNCHANGED nonCalVars

Submit ==
    /\ \E t \in 0..MaxClock : HandleSubmit(t)
    /\ UNCHANGED nonCalVars

Delete ==
    /\ \E confirmed \in BOOLEAN : HandleDelete(confirmed)
    /\ UNCHANGED nonCalVars

CloseModal == HandleCloseModal /\ UNCHANGED nonCalVars

CalNext ==
    \/ SelectSlot
    \/ SelectEvent
    \/ InputChange
    \/ Submit
    \/ Delete
    \/ CloseModal

(***************************************************************************)
(* Document store: DocumentProvider and useDocuments, driven by its        *)
(* consumers (DocumentList's row actions, DocumentPreview's close, the     *)
(* upload flow's insertion).                                               *)
(***************************************************************************)
\* the mock documents (fileUrl and fileSize are read by no operation
\* modelled here); an absent clientCase is Null
mockDocuments ==
    << [id |-> "1", name |-> "Client Agreement - Smith v. Jones",
        type |-> "pdf", uploadDate |-> "2024-10-15", uploader |-> "John Doe",
        tags |-> <<"Contract", "Client">>,
        clientCase |-> Some("Smith v. Jones")],
       [id |-> "2", name |-> "Evidence Photo - Crime Scene",
        type |-> "image", uploadDate |-> "2024-10-20",
        uploader |-> "Jane Smith", tags |-> <<"Evidence", "Criminal">>,
        clientCase |-> Some("State v. Brown")],
       [id |-> "3", name |-> "Motion to Dismiss - Case #2024-456",
        type |-> "pdf", uploadDate |-> "2024-10-25", uploader |-> "John Doe",
        tags |-> <<"Motion", "Court Filing">>,
        clientCase |-> Some("Johnson Estate")],
       [id |-> "4", name |-> "Witness Statement - Dr. Williams",
        type |-> "pdf", uploadDate |-> "2024-10-28",
        uploader |-> "Sarah Johnson", tags |-> <<"Witness", "Deposition">>,
        clientCase |-> Some("Medical Malpractice #789")] >>

\* the File objects a user can pick: name and declared content type
Files ==
    { [name |-> "brief.pdf", type |-> "application/pdf"],
      [name |-> "photo.png", type |-> "image/png"],
      [name |-> "notes.doc", type |-> "application/msword"],
      [name |-> "scan",      type |-> "image/pdf"] }

\* String.prototype.includes
Includes(s, sub) ==
    \E i \in 1..(Len(s) - Len(sub) + 1) : SubSeq(s, i, i + Len(sub) - 1) = sub

\* (mutant) the image test comes first
FileTypeImageFirst(type) ==
    IF Includes(type, "image") THEN "image"
    ELSE IF Includes(type, "pdf") THEN "pdf" ELSE "docx"

\* the document type simulateUpload derives from the file's declared type
FileType(type) ==
    IF Includes(type, "pdf") THEN "pdf"
    ELSE IF Includes(type, "image") THEN "image" ELSE "docx"

\* the metadata form's initial values
DefaultMetadata == [uploader |-> "Current User", tags |-> "", clientCase |-> ""]

\* new Date().toISOString().split('T')[0] on the day of the run
Today == "2024-11-01"

\* the tracking entry handleFileSelect makes for a file
UploadFile(id, file) ==
    [id |-> id, file |-> file, progress |-> 0, status |-> "uploading"]

\* String.prototype.split with a one-character separator
RECURSIVE Split(_, _)
Split(s, separator) ==
    LET at == {i \in 1..Len(s) : SubSeq(s, i, i) = separator}
    IN  IF at = {} THEN <<s>>
        ELSE LET first == CHOOSE i \in at : \A j \in at : i <= j
             IN  <<SubSeq(s, 1, first - 1)>> \o
                 Split(SubSeq(s, first + 1, Len(s)), separator)

\* String.prototype.trim (the white space that occurs is the space)
RECURSIVE TrimString(_)
TrimString(s) ==
    IF s = "" THEN ""
    ELSE IF SubSeq(s, 1, 1) = " " THEN TrimString(SubSeq(s, 2, Len(s)))
    ELSE IF SubSeq(s, Len(s), Len(s)) = " "
         THEN TrimString(SubSeq(s, 1, Len(s) - 1))
    ELSE s

\* metadata.tags ? metadata.tags.split(',').map(t => t.trim()) : []
TagsOf(tags) ==
    IF tags = "" THEN <<>>
    ELSE LET parts == Split(tags, ",")
         IN  [k \in 1..Len(parts) |-> TrimString(parts[k])]

\* the record simulateUpload builds when the file completes: a blank
\* clientCase becomes absent
NewDocument(uploadFile, md) ==
    [id |-> uploadFile.id, name |-> uploadFile.file.name,
     type |-> FileType(uploadFile.file.type), uploadDate |-> Today,
     uploader |-> md.uploader,
     tags |-> TagsOf(md.tags),
     clientCase |-> IF md.clientCase = "" THEN Null
                    ELSE Some(md.clientCase)]

\* the records an upload can hand to addDocument: the store does not look at
\* the id, so the same id may be handed over again
UploadedDocuments ==
    {NewDocument(UploadFile(i, [name |-> "notes.doc",
                                type |-> "application/msword"]),
                 DefaultMetadata) : i \in {"u1", "u2"}}

NoDocEvent ==
    [op |-> "none", arg |-> "", selectedBefore |-> Null, inProvider |-> TRUE,
     raised |-> FALSE, handle |-> Null]

\* an operation of the store, its argument (a document id) and the
\* selection it found
DocEvent(op, arg) ==
    [op |-> op, arg |-> arg, selectedBefore |-> selectedDocument,
     inProvider |-> TRUE, raised |-> FALSE, handle |-> Null]

\* (mutant) the new record is put last
AppendedDocuments(prev, document) == Append(prev, document)

\* addDocument's update of the collection
AddedDocuments(prev, document) == <<document>> \o prev

\* deleteDocument's update of the collection
DeletedDocuments(prev, id) ==
    LET Keep(doc) == doc.id # id
    IN  SelectSeq(prev, Keep)

\* (mutant) the selection is left alone
SelectionKeptAfterDelete(selected, id) == selected

\* deleteDocument's update of the selection
SelectionAfterDelete(selected, id) ==
    IF selected # Null /\ selected[1].id = id THEN Null ELSE selected

\* the value DocumentProvider hands to its descendants
ContextValue ==
    [documents |-> documents, selectedDocument |-> selectedDocument]

\* useContext(DocumentContext): the provider's value inside its scope, the
\* context's default (undefined) outside
UseContext(inProvider) == IF inProvider THEN Some(ContextValue) ELSE Null

\* (mutant) the guard is missing
UseDocumentsNeverThrows(context) == FALSE

\* useDocuments: whether it throws, and the handle it returns
UseDocumentsThrows(context) == context = Null

UseDocumentsResult(context) ==
    IF UseDocumentsThrows(context) THEN Null ELSE context

DocInit ==
    /\ documents = mockDocuments
    /\ selectedDocument = Null
    /\ docEv = NoDocEvent

\* addDocument, called by the upload flow when a file completes
AddDocument(document) ==
    /\ Len(documents) < MaxDocuments
    /\ documents' = AddedDocuments(documents, document)
    /\ docEv' = DocEvent("addDocument", document.id)
    /\ UNCHANGED selectedDocument

\* deleteDocument
DeleteDocument(id) ==
    /\ documents' = DeletedDocuments(documents, id)
    /\ selectedDocument' = SelectionAfterDelete(selectedDocument, id)
    /\ docEv' = DocEvent("deleteDocument", id)

\* DocumentList.handlePreview on row i
ListHandlePreview(i) ==
    /\ selectedDocument' = Some(documents[i])
    /\ docEv' = DocEvent("handlePreview", documents[i].id)
    /\ UNCHANGED documents

\* DocumentList.handleDelete on row i, with window.confirm's answer
ListHandleDelete(i, confirmed) ==
    IF confirmed
    THEN DeleteDocument(documents[i].id)
    ELSE /\ docEv' = DocEvent("handleDelete", documents[i].id)
         /\ UNCHANGED <<documents, selectedDocument>>

\* DocumentPreview.handleClose: setSelectedDocument(null)
PreviewHandleClose ==
    /\ selectedDocument # Null
    /\ selectedDocument' = Null
    /\ docEv' = DocEvent("handleClose", "")
    /\ UNCHANGED documents

\* a component calls useDocuments, inside or outside a DocumentProvider
UseDocuments(inProvider) ==
    /\ docEv' = [op |-> "useDocuments", arg |-> "",
                 selectedBefore |-> selectedDocument, inProvider |-> inProvider,
                 raised |-> UseDocumentsThrows(UseContext(inProvider)),
                 handle |-> UseDocumentsResult(UseContext(inProvider))]
    /\ UNCHANGED <<documents, selectedDocument>>

DocAdd ==
    /\ \E document \in UploadedDocuments : AddDocument(document)
    /\ UNCHANGED nonDocVars

DocPreview ==
    /\ \E i \in 1..Len(documents) : ListHandlePreview(i)
    /\ UNCHANGED nonDocVars

DocDelete ==
    /\ \E i \in 1..Len(documents), confirmed \in BOOLEAN :
          ListHandleDelete(i, confirmed)
    /\ UNCHANGED nonDocVars

DocClose == PreviewHandleClose /\ UNCHANGED nonDocVars

DocUse ==
    /\ \E inProvider \in BOOLEAN : UseDocuments(inProvider)
    /\ UNCHANGED nonDocVars

DocNext ==
    \/ DocAdd
    \/ DocPreview
    \/ DocDelete
    \/ DocClose
    \/ DocUse

(***************************************************************************)
(* Upload flow: DocumentUpload.  A picked file gets a tracking entry and a *)
(* 200 ms interval; each firing of the interval hands setUploadFiles an    *)
(* updater, and React runs the queued updaters in order when it next       *)
(* processes the component's state.  The updater itself clears the         *)
(* interval and calls addDocument.                                         *)
(***************************************************************************)
\* what one firing of the interval adds to the progress, and its ceiling
ProgressStep == 10

ProgressMax == 100

\* `${Date.now()}-${Math.random()}` of the n-th picked file: distinct
\* files get distinct ids
UploadId(n) == "u" \o ToString(n)

NoUpEvent == [op |-> "none", kind |-> "", id |-> "", added |-> 0, dropped |-> 0]

\* a step of the upload flow: the handler or the updater that ran, the file
\* id it is about, how many times it called addDocument and how many
\* tracking entries it dropped
UpEvent(op, kind, id, added, dropped) ==
    [op |-> op, kind |-> kind, id |-> id, added |-> added, dropped |-> dropped]

Min(a, b) == IF a <= b THEN a ELSE b

\* (mutant) progress is counted twice per firing
NewProgressTwice(uf) == Min(uf.progress + 2 * ProgressStep, ProgressMax)

\* Math.min(uf.progress + 10, 100)
NewProgress(uf) == Min(uf.progress + ProgressStep, ProgressMax)

\* (mutant) the updater does not look at the id: every entry advances
TickedFilesOfAll(prev, id) ==
    [i \in 1..Len(prev) |->
        IF NewProgress(prev[i]) = ProgressMax
        THEN [prev[i] EXCEPT !.progress = ProgressMax, !.status = "success"]
        ELSE [prev[i] EXCEPT !.progress = NewProgress(prev[i])]]

\* (mutant) a file that completes is marked as failed
TickedFilesFailing(prev, id) ==
    [i \in 1..Len(prev) |->
        IF prev[i].id = id
        THEN IF NewProgress(prev[i]) = ProgressMax
             THEN [prev[i] EXCEPT !.progress = ProgressMax,
                                  !.status = "error"]
             ELSE [prev[i] EXCEPT !.progress = NewProgress(prev[i])]
        ELSE prev[i]]

\* the interval's updater for the file of this id, applied to the list
TickedFiles(prev, id) ==
    [i \in 1..Len(prev) |->
        IF prev[i].id = id
        THEN IF NewProgress(prev[i]) = ProgressMax
             THEN [prev[i] EXCEPT !.progress = ProgressMax,
                                  !.status = "success"]
             ELSE [prev[i] EXCEPT !.progress = NewProgress(prev[i])]
        ELSE prev[i]]

\* whether that updater takes its completion branch (clearInterval,
\* addDocument): the list has the entry and its new progress is 100
TickCompletes(prev, id) ==
    \E i \in 1..Len(prev) :
        prev[i].id = id /\ NewProgress(prev[i]) = ProgressMax

\* removeFile's updater
RemovedFile(prev, id) ==
    LET Keep(uf) == uf.id # id
    IN  SelectSeq(prev, Keep)

\* (mutant) every entry that has made progress is dropped
ClearedStarted(prev) ==
    LET Keep(uf) == uf.progress = 0
    IN  SelectSeq(prev, Keep)

\* clearCompleted's updater
ClearedCompleted(prev) ==
    LET Keep(uf) == uf.status # "success"
    IN  SelectSeq(prev, Keep)

UpInit ==
    /\ uploadFiles = <<>>
    /\ picked = <<>>
    /\ intervals = {}
    /\ updateQueue = <<>>
    /\ metadata = DefaultMetadata
    /\ closureMetadata = <<>>
    /\ upEv = NoUpEvent

\* the values each input of the metadata form is given
MetadataInputs ==
    [uploader |-> {"Current User", "Ann Lee"},
     tags |-> {"", "Contract, Evidence"},
     clientCase |-> {"", "Smith v. Jones"}]

\* an input of the metadata form changes: setMetadata({...metadata,
\* [field]: value})
SetMetadata(field, value) ==
    /\ metadata' = [metadata EXCEPT ![field] = value]
    /\ metadata' # metadata
    /\ upEv' = UpEvent("setMetadata", field, "", 0, 0)
    /\ UNCHANGED <<uploadFiles, picked, intervals, updateQueue,
                   closureMetadata, docVars>>

\* (mutant) the interval's callback reads the form as it is now
LatestMetadata(n) == metadata

\* the metadata the n-th file's interval callback refers to: the value of
\* the render in which handleFileSelect called simulateUpload
ClosedOverMetadata(n) == closureMetadata[n]

\* handleFileSelect (from the file input or a drop): an entry and an
\* interval per file.  The appending updater touches no existing entry, so
\* it is applied at once.
HandleFileSelect(files) ==
    /\ Len(picked) + Len(files) <= MaxUploads
    /\ LET newFiles == [k \in 1..Len(files) |->
                           UploadFile(UploadId(Len(picked) + k), files[k])]
       IN  /\ uploadFiles' = uploadFiles \o newFiles
           /\ intervals' = intervals \cup
                               {newFiles[k].id : k \in 1..Len(files)}
    /\ picked' = picked \o files
    /\ closureMetadata' = closureMetadata \o
                              [k \in 1..Len(files) |-> metadata]
    /\ upEv' = UpEvent("handleFileSelect", "", "", 0, 0)
    /\ UNCHANGED <<updateQueue, metadata, docVars>>

\* the interval of this file fires: its updater is queued
IntervalFires(id) ==
    /\ id \in intervals
    /\ Len(updateQueue) < MaxQueued
    /\ updateQueue' = Append(updateQueue, [kind |-> "tick", id |-> id])
    /\ upEv' = UpEvent("interval", "tick", id, 0, 0)
    /\ UNCHANGED <<uploadFiles, picked, intervals, metadata,
                   closureMetadata, docVars>>

\* removeFile, from the button shown on an entry that is not uploading
RemoveFile(i) ==
    /\ uploadFiles[i].status # "uploading"
    /\ Len(updateQueue) < MaxQueued
    /\ updateQueue' = Append(updateQueue,
                             [kind |-> "remove", id |-> uploadFiles[i].id])
    /\ upEv' = UpEvent("removeFile", "remove", uploadFiles[i].id, 0, 0)
    /\ UNCHANGED <<uploadFiles, picked, intervals, metadata,
                   closureMetadata, docVars>>

\* clearCompleted, from the button shown while some entry has succeeded
ClearCompleted ==
    /\ \E i \in 1..Len(uploadFiles) : uploadFiles[i].status = "success"
    /\ Len(updateQueue) < MaxQueued
    /\ updateQueue' = Append(updateQueue, [kind |-> "clear", id |-> ""])
    /\ upEv' = UpEvent("clearCompleted", "clear", "", 0, 0)
    /\ UNCHANGED <<uploadFiles, picked, intervals, metadata,
                   closureMetadata, docVars>>

\* React runs the oldest queued updater
ProcessUpdate ==
    /\ updateQueue # <<>>
    /\ LET u == Head(updateQueue)
           n == CHOOSE k \in 1..Len(picked) : UploadId(k) = u.id
       IN  /\ updateQueue' = Tail(updateQueue)
           /\ CASE u.kind = "tick" ->
                   /\ uploadFiles' = TickedFiles(uploadFiles, u.id)
                   /\ IF TickCompletes(uploadFiles, u.id)
                      THEN /\ intervals' = intervals \ {u.id}
                           /\ documents' = AddedDocuments(documents,
                                  NewDocument(UploadFile(u.id, picked[n]),
                                              ClosedOverMetadata(n)))
                           /\ docEv' = DocEvent("addDocument", u.id)
                           /\ upEv' = UpEvent("update", "tick", u.id, 1, 0)
                      ELSE /\ upEv' = UpEvent("update", "tick", u.id, 0, 0)
                           /\ UNCHANGED <<intervals, documents, docEv>>
                   /\ UNCHANGED selectedDocument
             [] u.kind = "remove" ->
                   /\ uploadFiles' = RemovedFile(uploadFiles, u.id)
                   /\ upEv' = UpEvent("update", "remove", u.id, 0,
                                     Len(uploadFiles) - Len(uploadFiles'))
                   /\ UNCHANGED <<intervals, docVars>>
             [] u.kind = "clear" ->
                   /\ uploadFiles' = ClearedCompleted(uploadFiles)
                   /\ upEv' = UpEvent("update", "clear", "", 0,
                                     Len(uploadFiles) - Len(uploadFiles'))
                   /\ UNCHANGED <<intervals, docVars>>
    /\ UNCHANGED <<picked, metadata, closureMetadata>>

UpSelect ==
    /\ \E f \in Files : HandleFileSelect(<<f>>)
    /\ UNCHANGED nonUpVars

UpSelectTwo ==
    /\ \E f \in Files, g \in Files : HandleFileSelect(<<f, g>>)
    /\ UNCHANGED nonUpVars

UpInterval ==
    /\ \E id \in intervals : IntervalFires(id)
    /\ UNCHANGED nonUpVars

UpRemove ==
    /\ \E i \in 1..Len(uploadFiles) : RemoveFile(i)
    /\ UNCHANGED nonUpVars

UpClear == ClearCompleted /\ UNCHANGED nonUpVars

UpProcess == ProcessUpdate /\ UNCHANGED nonUpVars

UpMetadata ==
    /\ \E field \in DOMAIN MetadataInputs :
          \E value \in MetadataInputs[field] : SetMetadata(field, value)
    /\ UNCHANGED nonUpVars

\* a file of one kind is picked
UpSelectPdf ==
    /\ HandleFileSelect(<<[name |-> "brief.pdf", type |-> "application/pdf"]>>)
    /\ UNCHANGED nonUpVars

\* the upload flow with the metadata form in use: files are picked one at
\* a time and their intervals run while the form's inputs change
MetaNext ==
    \/ UpMetadata
    \/ UpSelectPdf
    \/ UpInterval
    \/ UpProcess

UpNext ==
    \/ UpSelect
    \/ UpSelectTwo
    \/ UpInterval
    \/ UpRemove
    \/ UpClear
    \/ UpProcess

(***************************************************************************)
(* Document list: DocumentList.  The displayed list is derived on every    *)
(* render from the store's collection and the list's four state values.    *)
(***************************************************************************)
UpperLetters == "ABCDEFGHIJKLMNOPQRSTUVWXYZ"

LowerLetters == "abcdefghijklmnopqrstuvwxyz"

\* the position of a one-character string in a string, 0 if absent
IndexOf(c, s) ==
    IF \E i \in 1..Len(s) : SubSeq(s, i, i) = c
    THEN CHOOSE i \in 1..Len(s) : SubSeq(s, i, i) = c
    ELSE 0

\* String.prototype.toLowerCase on one character
LowerChar(c) ==
    LET i == IndexOf(c, UpperLetters)
    IN  IF i = 0 THEN c ELSE SubSeq(LowerLetters, i, i)

\* String.prototype.toLowerCase
RECURSIVE ToLowerCase(_)
ToLowerCase(s) ==
    IF s = "" THEN ""
    ELSE LowerChar(SubSeq(s, 1, 1)) \o ToLowerCase(SubSeq(s, 2, Len(s)))

\* the first-level collation order of the characters that occur in names:
\* space, punctuation, digits, letters (a letter and its capital share a
\* position)
Collation == " -./#0123456789abcdefghijklmnopqrstuvwxyz"

CollationKey(c) == IndexOf(LowerChar(c), Collation)

\* the first position at which the two strings differ in letter (case
\* ignored), and the first at which they differ at all; 0 if there is none
\* within the shorter one
FirstKeyDifference(a, b) ==
    LET at == {i \in 1..Min(Len(a), Len(b)) :
                  CollationKey(SubSeq(a, i, i)) # CollationKey(SubSeq(b, i, i))}
    IN  IF at = {} THEN 0 ELSE CHOOSE i \in at : \A j \in at : i <= j

FirstCaseDifference(a, b) ==
    LET at == {i \in 1..Min(Len(a), Len(b)) :
                  SubSeq(a, i, i) # SubSeq(b, i, i)}
    IN  IF at = {} THEN 0 ELSE CHOOSE i \in at : \A j \in at : i <= j

\* String.prototype.localeCompare: the first difference of letters (case
\* ignored) decides, then the length, then the first difference of case
\* (the small letter first)
LocaleCompare(a, b) ==
    LET p == FirstKeyDifference(a, b)
        t == FirstCaseDifference(a, b)
    IN  IF p # 0
        THEN IF CollationKey(SubSeq(a, p, p)) < CollationKey(SubSeq(b, p, p))
             THEN -1 ELSE 1
        ELSE IF Len(a) # Len(b) THEN (IF Len(a) < Len(b) THEN -1 ELSE 1)
        ELSE IF t = 0 THEN 0
        ELSE IF SubSeq(a, t, t) = LowerChar(SubSeq(a, t, t)) THEN -1 ELSE 1

\* parseInt of a string of decimal digits
RECURSIVE DigitsValue(_)
DigitsValue(s) ==
    IF s = "" THEN 0
    ELSE 10 * DigitsValue(SubSeq(s, 1, Len(s) - 1))
         + (IndexOf(SubSeq(s, Len(s), Len(s)), "0123456789") - 1)

\* the number of days from 1970-01-01 to the given day of the civil calendar
DaysFromCivil(year, month, day) ==
    LET y == IF month <= 2 THEN year - 1 ELSE year
        era == y \div 400
        yoe == y - era * 400
        mp == IF month > 2 THEN month - 3 ELSE month + 9
        doy == (153 * mp + 2) \div 5 + day - 1
        doe == yoe * 365 + yoe \div 4 - yoe \div 100 + doy
    IN  era * 146097 + doe - 719468

\* new Date(uploadDate).getTime() for a 'YYYY-MM-DD' string (midnight UTC),
\* counted in days instead of milliseconds: only differences are used
GetTime(uploadDate) ==
    DaysFromCivil(DigitsValue(SubSeq(uploadDate, 1, 4)),
                  DigitsValue(SubSeq(uploadDate, 6, 7)),
                  DigitsValue(SubSeq(uploadDate, 9, 10)))

\* (mutant) a record without clientCase matches every search
MatchesSearchAbsentCase(doc, term) ==
    \/ Includes(ToLowerCase(doc.name), ToLowerCase(term))
    \/ Includes(ToLowerCase(doc.uploader), ToLowerCase(term))
    \/ doc.clientCase = Null
    \/ Includes(ToLowerCase(doc.clientCase[1]), ToLowerCase(term))

\* matchesSearch: clientCase?.toLowerCase() is undefined, hence falsy, when
\* the record has no clientCase
MatchesSearch(doc, term) ==
    LET lowered == ToLowerCase(term)
    IN  \/ Includes(ToLowerCase(doc.name), lowered)
        \/ Includes(ToLowerCase(doc.uploader), lowered)
        \/ /\ doc.clientCase # Null
           /\ Includes(ToLowerCase(doc.clientCase[1]), lowered)

MatchesType(doc, type) == type = "all" \/ doc.type = type

\* documents.filter(...): a new array
FilteredBy(docs, term, type) ==
    LET Keep(doc) == MatchesSearch(doc, term) /\ MatchesType(doc, type)
    IN  SelectSeq(docs, Keep)

\* (mutant) the direction is ignored
ComparatorAscending(a, b, by, order) ==
    CASE by = "name" -> LocaleCompare(a.name, b.name)
      [] by = "date" -> GetTime(a.uploadDate) - GetTime(b.uploadDate)
      [] by = "uploader" -> LocaleCompare(a.uploader, b.uploader)

\* the comparator handed to sort
Comparator(a, b, by, order) ==
    LET comparison ==
            CASE by = "name" -> LocaleCompare(a.name, b.name)
              [] by = "date" -> GetTime(a.uploadDate) - GetTime(b.uploadDate)
              [] by = "uploader" -> LocaleCompare(a.uploader, b.uploader)
    IN  IF order = "asc" THEN comparison ELSE 0 - comparison

\* Array.prototype.sort, which is stable: each element in turn is put after
\* the last element that does not compare greater than it
RECURSIVE InsertSorted(_, _, _, _)
InsertSorted(sorted, x, by, order) ==
    IF sorted = <<>> THEN <<x>>
    ELSE IF Comparator(sorted[Len(sorted)], x, by, order) > 0
         THEN Append(InsertSorted(SubSeq(sorted, 1, Len(sorted) - 1),
                                  x, by, order),
                     sorted[Len(sorted)])
         ELSE Append(sorted, x)

RECURSIVE SortedBy(_, _, _)
SortedBy(s, by, order) ==
    IF s = <<>> THEN <<>>
    ELSE InsertSorted(SortedBy(SubSeq(s, 1, Len(s) - 1), by, order),
                      s[Len(s)], by, order)

\* (mutant) the store's array itself is sorted, then filtered
DerivationInPlace(docs, term, type, by, order) ==
    [filtered |-> FilteredBy(SortedBy(docs, by, order), term, type),
     documents |-> SortedBy(docs, by, order)]

\* one evaluation of the filteredDocuments memo: what it returns, and the
\* store's array after it (sort works on the array filter returned)
Derivation(docs, term, type, by, order) ==
    [filtered |-> SortedBy(FilteredBy(docs, term, type), by, order),
     documents |-> docs]

\* the list a render displays
filteredDocuments ==
    Derivation(documents, searchTerm, filterType, sortBy, sortOrder).filtered

\* the options of the type filter
documentTypes == {"all"} \cup {documents[i].type : i \in 1..Len(documents)}

\* what the user types into the search box
SearchTerms == {"", "SMITH", "doc", "brown"}

SortFields == {"name", "date", "uploader"}

NoListEvent ==
    [op |-> "none", arg |-> "", prevBy |-> "", prevOrder |-> "",
     results |-> <<>>]

\* a step of the list: the handler, its argument, the sort state it found
\* and (for a render) what each evaluation of the derivation returned
ListEvent(op, arg, results) ==
    [op |-> op, arg |-> arg, prevBy |-> sortBy, prevOrder |-> sortOrder,
     results |-> results]

\* (mutant) a new sort key keeps the direction
SortOrderKeptOnNewKey(by, order, field) ==
    IF by = field THEN (IF order = "asc" THEN "desc" ELSE "asc") ELSE order

\* handleSort's new direction and new key
SortOrderAfter(by, order, field) ==
    IF by = field THEN (IF order = "asc" THEN "desc" ELSE "asc") ELSE "asc"

SortByAfter(by, field) == IF by = field THEN by ELSE field

ListInit ==
    /\ searchTerm = ""
    /\ sortBy = "date"
    /\ sortOrder = "desc"
    /\ filterType = "all"
    /\ listEv = NoListEvent

\* the search box's onChange
SetSearchTerm(value) ==
    /\ searchTerm' = value
    /\ listEv' = [ListEvent("setSearchTerm", value, <<>>)
                     EXCEPT !.prevBy = "", !.prevOrder = ""]
    /\ UNCHANGED <<sortBy, sortOrder, filterType, docVars>>

\* the type filter's onChange
SetFilterType(value) ==
    /\ filterType' = value
    /\ listEv' = [ListEvent("setFilterType", value, <<>>)
                     EXCEPT !.prevBy = "", !.prevOrder = ""]
    /\ UNCHANGED <<searchTerm, sortBy, sortOrder, docVars>>

\* handleSort, from a click on a column header
HandleSort(field) ==
    /\ sortBy' = SortByAfter(sortBy, field)
    /\ sortOrder' = SortOrderAfter(sortBy, sortOrder, field)
    /\ listEv' = ListEvent("handleSort", field, <<>>)
    /\ UNCHANGED <<searchTerm, filterType, docVars>>

\* the component renders again with nothing changed: React evaluates the
\* memo (twice over, as when a render is repeated)
RenderList ==
    LET first == Derivation(documents, searchTerm, filterType, sortBy,
                            sortOrder)
        second == Derivation(first.documents, searchTerm, filterType, sortBy,
                             sortOrder)
    IN  /\ documents' = second.documents
        /\ listEv' = [ListEvent("render", "",
                                <<first.filtered, second.filtered>>)
                         EXCEPT !.prevBy = "", !.prevOrder = ""]
        /\ UNCHANGED <<searchTerm, sortBy, sortOrder, filterType,
                       selectedDocument, docEv>>

\* an upload completes while the list is shown: the store's collection
\* changes under it
StoreChanges(document) ==
    /\ AddDocument(document)
    /\ listEv' = [ListEvent("documents", document.id, <<>>)
                     EXCEPT !.prevBy = "", !.prevOrder = ""]
    /\ UNCHANGED <<searchTerm, sortBy, sortOrder, filterType>>

ListSearch ==
    /\ \E value \in SearchTerms : SetSearchTerm(value)
    /\ UNCHANGED nonListVars

ListFilter ==
    /\ \E value \in documentTypes : SetFilterType(value)
    /\ UNCHANGED nonListVars

ListSort ==
    /\ \E field \in SortFields : HandleSort(field)
    /\ UNCHANGED nonListVars

ListRender == RenderList /\ UNCHANGED nonListVars

ListStore ==
    /\ \E document \in UploadedDocuments : StoreChanges(document)
    /\ UNCHANGED nonListVars

ListNext ==
    \/ ListSearch
    \/ ListFilter
    \/ ListSort
    \/ ListRender
    \/ ListStore

(***************************************************************************)
(* Document preview: DocumentPreview.  The zoom is a JavaScript number: an *)
(* IEEE-754 double.  A double between 0.25 and 4 is written <<hi, lo>>,    *)
(* standing for (hi * 2^27 + lo) / 2^54; sums and differences are rounded  *)
(* to the nearest double, ties to even, as the hardware does.              *)
(***************************************************************************)
Limb == 2^27

\* 1.0, 0.5, 3.0 and the double nearest to 0.2
One == <<Limb, 0>>

Half == <<Limb \div 2, 0>>

Three == <<3 * Limb, 0>>

Fifth == <<26843545, 80530637>>

\* the distance between neighbouring doubles at this magnitude, in 2^-54
Ulp(hi) ==
    IF hi >= 2 * Limb THEN 8
    ELSE IF hi >= Limb THEN 4
    ELSE IF hi >= Limb \div 2 THEN 2 ELSE 1

\* the double nearest to the exact value, the even one on a tie
RoundToDouble(hi, lo) ==
    LET u == Ulp(hi)
        r == lo % u
        down == lo - r
        up == r * 2 > u \/ (r * 2 = u /\ (down \div u) % 2 = 1)
        rounded == IF up THEN down + u ELSE down
    IN  IF rounded = Limb THEN <<hi + 1, 0>> ELSE <<hi, rounded>>

\* a + b and a - b on doubles
DoubleAdd(a, b) ==
    LET lo == a[2] + b[2]
    IN  RoundToDouble(a[1] + b[1] + lo \div Limb, lo % Limb)

DoubleSub(a, b) ==
    LET lo == a[2] - b[2]
        borrow == IF lo < 0 THEN 1 ELSE 0
    IN  RoundToDouble(a[1] - b[1] - borrow, lo + borrow * Limb)

DoubleLE(a, b) == a[1] < b[1] \/ (a[1] = b[1] /\ a[2] <= b[2])

MathMin(a, b) == IF DoubleLE(a, b) THEN a ELSE b

MathMax(a, b) == IF DoubleLE(a, b) THEN b ELSE a

\* (mutant) no ceiling
ZoomedInUncapped(prev) == DoubleAdd(prev, Fifth)

\* handleZoomIn's and handleZoomOut's updaters
ZoomedIn(prev) == MathMin(DoubleAdd(prev, Fifth), Three)

ZoomedOut(prev) == MathMax(DoubleSub(prev, Fifth), Half)

\* the preview shows a PDF and its controls: isPDF && !pdfError
ControlsShown ==
    /\ selectedDocument # Null
    /\ selectedDocument[1].type = "pdf"
    /\ ~pdfError

\* the pagination is shown: numPages && numPages > 1
PaginationShown == ControlsShown /\ numPages # Null /\ numPages[1] > 1

NoPrevEvent == [op |-> "none", streak |-> 0, atClose |-> Null]

\* a step of the preview: the handler, how many zoom-ins in a row have been
\* made since the zoom was 1.0 at the start or after a close (-1 once a
\* zoom-out has come between), and what the last close found
PrevEvent(op, streak, atClose) ==
    [op |-> op, streak |-> streak, atClose |-> atClose]

\* (mutant) the close leaves the zoom as it is
ClosedStateKeepingZoom ==
    [pageNumber |-> 1, scale |-> scale, pdfError |-> FALSE]

\* what handleClose sets the component's state to
ClosedState == [pageNumber |-> 1, scale |-> One, pdfError |-> FALSE]

\* the documents whose preview is a PDF viewer
PdfIds ==
    {mockDocuments[i].id : i \in {j \in 1..Len(mockDocuments) :
                                     mockDocuments[j].type = "pdf"}}

\* the page count of the file being previewed
FilePages == pageCounts[selectedDocument[1].id]

PreviewMounted ==
    /\ numPages = Null
    /\ pageNumber = 1
    /\ scale = One
    /\ pdfError = FALSE
    /\ loading = FALSE
    /\ prevEv = NoPrevEvent

PrevInit == PreviewMounted /\ pageCounts = [id \in PdfIds |-> 1]

\* the files behind the documents' URLs are not part of the program: any
\* page counts
PrevInitAnyFiles ==
    PreviewMounted /\ pageCounts \in [PdfIds -> 1..MaxPages]

\* the list's preview action on row i; the rows are behind the preview's
\* overlay while a preview is open.  For a PDF the viewer starts loading the
\* file.
OpenPreview(i) ==
    /\ selectedDocument = Null
    /\ ListHandlePreview(i)
    /\ loading' = (documents[i].type = "pdf")
    /\ prevEv' = PrevEvent("handlePreview", prevEv.streak, prevEv.atClose)
    /\ UNCHANGED <<numPages, pageNumber, scale, pdfError, pageCounts>>

\* onDocumentLoadSuccess
OnDocumentLoadSuccess ==
    /\ loading
    /\ numPages' = Some(FilePages)
    /\ pageNumber' = 1
    /\ pdfError' = FALSE
    /\ loading' = FALSE
    /\ prevEv' = PrevEvent("onDocumentLoadSuccess", prevEv.streak,
                           prevEv.atClose)
    /\ UNCHANGED <<scale, pageCounts, docVars>>

\* onDocumentLoadError
OnDocumentLoadError ==
    /\ loading
    /\ pdfError' = TRUE
    /\ loading' = FALSE
    /\ prevEv' = PrevEvent("onDocumentLoadError", prevEv.streak,
                           prevEv.atClose)
    /\ UNCHANGED <<numPages, pageNumber, scale, pageCounts, docVars>>

\* handleClose; the viewer goes away with the preview
HandleClose ==
    /\ PreviewHandleClose
    /\ pageNumber' = ClosedState.pageNumber
    /\ scale' = ClosedState.scale
    /\ pdfError' = ClosedState.pdfError
    /\ loading' = FALSE
    /\ prevEv' = PrevEvent("handleClose", 0,
                           Some([zoomed |-> scale # One,
                                 paged |-> pageNumber # 1,
                                 failed |-> pdfError]))
    /\ UNCHANGED <<numPages, pageCounts>>

\* handleZoomIn; at the ceiling the button is disabled and a click leaves
\* the zoom where it is
HandleZoomIn ==
    /\ ControlsShown
    /\ scale' = ZoomedIn(scale)
    /\ prevEv' = PrevEvent("handleZoomIn",
                           IF prevEv.streak < 0 THEN prevEv.streak
                           ELSE Min(prevEv.streak + 1, MaxStreak),
                           prevEv.atClose)
    /\ UNCHANGED <<numPages, pageNumber, pdfError, loading, pageCounts,
                   docVars>>

\* handleZoomOut
HandleZoomOut ==
    /\ ControlsShown
    /\ scale' = ZoomedOut(scale)
    /\ prevEv' = PrevEvent("handleZoomOut", -1, prevEv.atClose)
    /\ UNCHANGED <<numPages, pageNumber, pdfError, loading, pageCounts,
                   docVars>>

\* goToNextPage
GoToNextPage ==
    /\ PaginationShown
    /\ IF numPages # Null /\ pageNumber < numPages[1]
       THEN pageNumber' = pageNumber + 1
       ELSE pageNumber' = pageNumber
    /\ prevEv' = PrevEvent("goToNextPage", prevEv.streak, prevEv.atClose)
    /\ UNCHANGED <<numPages, scale, pdfError, loading, pageCounts, docVars>>

\* goToPreviousPage
GoToPreviousPage ==
    /\ PaginationShown
    /\ IF pageNumber > 1
       THEN pageNumber' = pageNumber - 1
       ELSE pageNumber' = pageNumber
    /\ prevEv' = PrevEvent("goToPreviousPage", prevEv.streak, prevEv.atClose)
    /\ UNCHANGED <<numPages, scale, pdfError, loading, pageCounts, docVars>>

PrevOpen ==
    /\ \E i \in 1..Len(documents) : OpenPreview(i)
    /\ UNCHANGED nonPrevVars

PrevLoadSuccess == OnDocumentLoadSuccess /\ UNCHANGED nonPrevVars

PrevLoadError == OnDocumentLoadError /\ UNCHANGED nonPrevVars

PrevClose == HandleClose /\ UNCHANGED nonPrevVars

PrevZoomIn == HandleZoomIn /\ UNCHANGED nonPrevVars

PrevZoomOut == HandleZoomOut /\ UNCHANGED nonPrevVars

PrevNextPage == GoToNextPage /\ UNCHANGED nonPrevVars

PrevPreviousPage == GoToPreviousPage /\ UNCHANGED nonPrevVars

PrevNext ==
    \/ PrevOpen
    \/ PrevLoadSuccess
    \/ PrevLoadError
    \/ PrevClose
    \/ PrevZoomIn
    \/ PrevZoomOut
    \/ PrevNextPage
    \/ PrevPreviousPage

Init == CalInit /\ DocInit /\ UpInit /\ ListInit /\ PrevInit

\* the calendar page
CalSpec == Init /\ [][CalNext]_vars

\* the documents page
DocSpec == Init /\ [][DocNext]_vars

\* the upload flow
UpSpec == Init /\ [][UpNext]_vars

MetaSpec == Init /\ [][MetaNext]_vars

\* the scheduling of the upload flow: setInterval keeps firing a file's
\* callback every 200 ms until clearInterval, and React runs every updater
\* it was handed
UpFairness ==
    /\ \A n \in 1..MaxUploads :
          SF_vars(IntervalFires(UploadId(n)) /\ UNCHANGED nonUpVars)
    /\ WF_vars(UpProcess)

UpFairSpec == Init /\ [][UpNext]_vars /\ UpFairness

\* the document list
ListSpec == Init /\ [][ListNext]_vars

\* the document preview
InitAnyFiles ==
    CalInit /\ DocInit /\ UpInit /\ ListInit /\ PrevInitAnyFiles

PrevSpec == InitAnyFiles /\ [][PrevNext]_vars

(***************************************************************************)
(* Properties of the calendar page (checked under CalSpec).                *)
(***************************************************************************)
\* end is strictly after start: both are instants and end is the later one
StrictlyAfter(end, start) ==
    end # InvalidDate /\ start # InvalidDate /\ end > start

\* the two validation rules of the editor
TitleRuleHolds(fd) == Trim(fd.title) # <<>>

EndRuleHolds(fd) == StrictlyAfter(fd.end, fd.start)

ValidDraft(fd) == TitleRuleHolds(fd) /\ EndRuleHolds(fd)

\* what the editor shows under a field
ErrorShown(errs, name) == IF HasError(errs, name) THEN errs[name] ELSE ""

IdsOf(s) == {s[i].id : i \in 1..Len(s)}

\* s without its entries of the given id, order kept
RECURSIVE WithoutId(_, _)
WithoutId(s, id) ==
    IF s = <<>> THEN <<>>
    ELSE IF Head(s).id = id THEN WithoutId(Tail(s), id)
         ELSE <<Head(s)>> \o WithoutId(Tail(s), id)

\* the step just taken ran the named handler
SubmitStep == ev'.op = "handleSubmit"

InputChangeStep == ev'.op = "handleInputChange"

DeleteStep == ev'.op = "handleDelete"

CloseStep == ev'.op = "handleCloseModal"

OpenStep == ev'.op \in {"handleSelectSlot", "handleSelectEvent"}

\* C1: a submit of a draft with a non-blank title and end strictly after
\* start invokes the save callback once, with one record that carries the
\* draft and whose id is the edited record's id when editing and the id
\* synthesized from the current time when creating.
C1_ValidSubmitSavesOneRecord ==
    [][(SubmitStep /\ ValidDraft(formData)) =>
          /\ Len(ev'.onSave) = 1
          /\ ev'.onSave[1].title = formData.title
          /\ ev'.onSave[1].start = formData.start
          /\ ev'.onSave[1].end = formData.end
          /\ IF selectedAppointment # Null
             THEN ev'.onSave[1].id = selectedAppointment[1].id
             ELSE /\ now' >= now
                  /\ ev'.onSave[1].id = "apt-" \o ToString(now')]_vars

\* a valid draft was submitted in create mode at clock reading 1: its record
\* was handed over and is the last of the collection
C1_Witness ==
    /\ ev.op = "handleSubmit"
    /\ Len(ev.onSave) = 1
    /\ ev.onSave[1].id = "apt-1"
    /\ ValidDraft(ev.onSave[1])
    /\ appointments[Len(appointments)] = ev.onSave[1]

\* C2: on every submit the title error is set exactly when the title is
\* blank after trimming, and the end error exactly when end is not strictly
\* after start.
C2_ErrorsAreTheViolatedRules ==
    [][SubmitStep =>
          /\ HasError(errors', "title") <=> ~TitleRuleHolds(formData)
          /\ HasError(errors', "end") <=> ~EndRuleHolds(formData)]_vars

\* C3: a submit while a validation rule is violated does not invoke the save
\* callback and changes neither the collection nor whether the editor is
\* open.
C3_InvalidSubmitIsRejected ==
    [][(SubmitStep /\ ~ValidDraft(formData)) =>
          /\ ev'.onSave = <<>>
          /\ appointments' = appointments
          /\ showModal' = showModal]_vars

\* C4: changing a field that shows an error removes that field's error and
\* leaves what is shown under every other field as it was.
C4_ChangeClearsOnlyThatFieldsError ==
    [][\A name \in FieldNames :
          (InputChangeStep /\ formData'[name] # formData[name]) =>
              /\ ~HasError(errors', name)
              /\ \A other \in FieldNames \ {name} :
                    ErrorShown(errors', other) = ErrorShown(errors, other)]_vars

\* the title was changed while both errors were shown: the title error is
\* cleared, the end error still shown
C4_Witness ==
    /\ ev.op = "handleInputChange"
    /\ showModal
    /\ "title" \in DOMAIN errors
    /\ errors["title"] = ""
    /\ HasError(errors, "end")

\* C5: a saved record replaces the entry of the same id at its position when
\* the collection holds one, and is appended otherwise.
C5_SaveReplacesByIdElseAppends ==
    [][(SubmitStep /\ ev'.onSave # <<>>) =>
          LET saved == ev'.onSave[1]
          IN  IF saved.id \in IdsOf(appointments)
              THEN \E i \in 1..Len(appointments) :
                      /\ appointments[i].id = saved.id
                      /\ appointments' = [appointments EXCEPT ![i] = saved]
              ELSE appointments' = Append(appointments, saved)]_vars

\* C6: entries leave the collection only by a confirmed delete in the editor
\* opened on them; a confirmed delete hands the record's id to the delete
\* callback and removes exactly the entries of that id; a declined prompt,
\* or a delete in create mode, changes nothing and leaves the editor open.
C6_DeleteOnlyOnConfirmation ==
    [][/\ (Len(appointments') < Len(appointments)
           \/ IdsOf(appointments) \ IdsOf(appointments') # {}) =>
              /\ DeleteStep
              /\ ev'.arg = "confirmed"
              /\ showModal
              /\ selectedAppointment # Null
              /\ IdsOf(appointments) \ IdsOf(appointments')
                    = {selectedAppointment[1].id}
       /\ (DeleteStep /\ ev'.arg = "confirmed") =>
              /\ selectedAppointment # Null
              /\ ev'.onDelete = <<selectedAppointment[1].id>>
              /\ appointments' =
                    WithoutId(appointments, selectedAppointment[1].id)
              /\ Len(appointments') < Len(appointments)
       /\ (DeleteStep /\ ev'.arg # "confirmed") =>
              /\ ev'.onDelete = <<>>
              /\ ev'.arg = (IF selectedAppointment = Null THEN "no prompt"
                            ELSE "declined")
              /\ appointments' = appointments
              /\ showModal' /\ showModal
              /\ formData' = formData]_vars

\* a confirmed delete removed the first mock record while a created record
\* stays behind
C6_Witness ==
    /\ ev.op = "handleDelete"
    /\ ev.onDelete = <<"1">>
    /\ ~showModal
    /\ Len(appointments) = 1
    /\ "1" \notin IdsOf(appointments)

\* C7: closing the editor leaves the collection as it was when the editor
\* was opened and discards the draft; an opening seeds the draft from the
\* selected record, or from the selected range with a blank title, and shows
\* no error.
C7_CloseDiscardsTheDraft ==
    [][/\ CloseStep =>
              /\ appointments' = appointments
              /\ appointments' = atOpen
              /\ ~showModal'
              /\ selectedAppointment' = Null
              /\ selectedSlot' = Null
       /\ OpenStep =>
              /\ showModal'
              /\ errors' = NoErrors
              /\ appointments' = appointments
              /\ IF selectedAppointment' # Null
                 THEN /\ selectedSlot' = Null
                      /\ \E i \in 1..Len(appointments) :
                            selectedAppointment'[1] = appointments[i]
                      /\ formData'.title = selectedAppointment'[1].title
                      /\ formData'.start = selectedAppointment'[1].start
                      /\ formData'.end = selectedAppointment'[1].end
                 ELSE /\ selectedSlot' \in {Some(sl) : sl \in Slots}
                      /\ formData'.title = <<>>
                      /\ formData'.start = selectedSlot'[1].start
                      /\ formData'.end = selectedSlot'[1].end]_vars

\* the editor was closed while it showed errors, and the collection is the
\* initial one
C7_Witness ==
    /\ ev.op = "handleCloseModal"
    /\ ev.arg = "errors shown"
    /\ ~showModal
    /\ appointments = SubSeq(mockAppointments, 1, NumInitial)

(***************************************************************************)
(* Properties of the document store (checked under DocSpec).               *)
(***************************************************************************)
DocDeleteStep == docEv'.op = "deleteDocument"

DocAddStep == docEv'.op = "addDocument"

\* C8: deleting the selected document's id clears the selection, deleting
\* another id leaves it; the records of the deleted id, and only they, leave
\* the collection, the others keeping their order.
C8_DeleteClearsMatchingSelection ==
    [][DocDeleteStep =>
          /\ IF selectedDocument # Null /\ selectedDocument[1].id = docEv'.arg
             THEN selectedDocument' = Null
             ELSE selectedDocument' = selectedDocument
          /\ documents' = WithoutId(documents, docEv'.arg)]_vars

\* the selected document was deleted, one of two records of its id
C8_Witness ==
    /\ docEv.op = "deleteDocument"
    /\ docEv.selectedBefore # Null
    /\ docEv.selectedBefore[1].id = docEv.arg
    /\ selectedDocument = Null
    /\ docEv.arg = "u1"
    /\ Len(documents) = 3

\* another document than the selected one was deleted
C8_WitnessOther ==
    /\ docEv.op = "deleteDocument"
    /\ selectedDocument # Null
    /\ selectedDocument[1].id # docEv.arg

\* C9: addDocument puts the new record first, keeps the records already
\* present in their order after it, and leaves the selection alone.
C9_AddPrepends ==
    [][DocAddStep =>
          /\ Len(documents') = Len(documents) + 1
          /\ documents'[1].id = docEv'.arg
          /\ Tail(documents') = documents
          /\ selectedDocument' = selectedDocument]_vars

\* a document was added in front of the four mock documents while one of
\* them is selected
C9_Witness ==
    /\ docEv.op = "addDocument"
    /\ Len(documents) = 5
    /\ documents[1].id = "u2"
    /\ Tail(documents) = mockDocuments
    /\ selectedDocument # Null

\* C10: useDocuments raises exactly when it is called outside a
\* DocumentProvider, and then returns no handle; inside, it returns the
\* provider's value.
C10_UseDocumentsFailsFastOutsideProvider ==
    docEv.op = "useDocuments" =>
        /\ docEv.raised <=> ~docEv.inProvider
        /\ docEv.raised => docEv.handle = Null
        /\ docEv.inProvider =>
              docEv.handle = Some([documents |-> documents,
                                   selectedDocument |-> selectedDocument])

\* useDocuments was called outside a provider and raised
C10_Witness ==
    /\ docEv.op = "useDocuments"
    /\ ~docEv.inProvider
    /\ docEv.raised
    /\ docEv.handle = Null

(***************************************************************************)
(* Upload flow claims.                                                     *)
(***************************************************************************)
\* React ran the queued updater of this kind
UpdateStep(kind) == upEv'.op = "update" /\ upEv'.kind = kind

\* how many records of the collection carry this id
CountId(s, id) == Cardinality({i \in 1..Len(s) : s[i].id = id})

\* the tracking list shows this file at 100%
ReachedFull(files, id) ==
    \E i \in 1..Len(files) : files[i].id = id /\ files[i].progress = 100

\* sub occurs in s: s is some prefix, then sub, then some suffix
Contains(s, sub) ==
    \E i \in 0..Len(s), j \in 1..(Len(s) + 1) :
        SubSeq(s, 1, i) \o sub \o SubSeq(s, j, Len(s)) = s

\* the tracking entries without those of this status, order kept
RECURSIVE WithoutStatus(_, _)
WithoutStatus(s, status) ==
    IF s = <<>> THEN <<>>
    ELSE IF Head(s).status = status THEN WithoutStatus(Tail(s), status)
    ELSE <<Head(s)>> \o WithoutStatus(Tail(s), status)

\* C11: for every uploaded file, under every interleaving of interval
\* firings and processing of the queued updaters: the file's interval is
\* cancelled once the file shows 100%, an updater of that file processed
\* after the file shows 100% changes neither the tracking list nor the
\* store, and the store never holds two records with the file's id.
C11_TimerCancelledAndInsertedOnce ==
    [][\A k \in 1..Len(picked') :
          /\ ReachedFull(uploadFiles', UploadId(k)) =>
                 UploadId(k) \notin intervals'
          /\ (/\ UpdateStep("tick")
              /\ upEv'.id = UploadId(k)
              /\ ReachedFull(uploadFiles, UploadId(k)))
                 => (uploadFiles' = uploadFiles /\ documents' = documents)
          /\ CountId(documents', UploadId(k)) <= 1]_vars

\* C12: the document an upload creates has type pdf if the file's declared
\* content type contains "pdf", else image if it contains "image", else
\* docx; application/pdf gives pdf, image/png image, application/msword
\* docx, and a declared type with both substrings pdf.
C12_TypeFromDeclaredContentType ==
    [][\A k \in 1..Len(picked) :
          (UpdateStep("tick") /\ upEv'.added = 1 /\ upEv'.id = UploadId(k))
          => LET declared == picked[k].type
                 created == Head(documents')
             IN  /\ created.id = UploadId(k)
                 /\ Contains(declared, "pdf") => created.type = "pdf"
                 /\ (~Contains(declared, "pdf") /\ Contains(declared, "image"))
                        => created.type = "image"
                 /\ (~Contains(declared, "pdf") /\ ~Contains(declared, "image"))
                        => created.type = "docx"
                 /\ declared = "application/pdf" => created.type = "pdf"
                 /\ declared = "image/png" => created.type = "image"
                 /\ declared = "application/msword" => created.type = "docx"
                 /\ declared = "image/pdf" => created.type = "pdf"]_vars

\* an upload of a file whose declared type has both substrings completed
C12_Witness ==
    /\ upEv.op = "update" /\ upEv.kind = "tick" /\ upEv.added = 1
    /\ \E k \in 1..Len(picked) :
          /\ upEv.id = UploadId(k)
          /\ picked[k].type = "image/pdf"
          /\ Head(documents).id = UploadId(k)
          /\ Head(documents).type = "pdf"

\* C13: removing one tracking entry and bulk-clearing completed entries
\* change only the tracking list (the store's collection and selection are
\* unchanged); bulk-clear removes exactly the entries with status success
\* and leaves every entry still uploading in place.
C13_RemovalsTouchOnlyTheTrackingList ==
    [][/\ UpdateStep("remove") =>
              /\ uploadFiles' = WithoutId(uploadFiles, upEv'.id)
              /\ documents' = documents
              /\ selectedDocument' = selectedDocument
       /\ UpdateStep("clear") =>
              /\ uploadFiles' = WithoutStatus(uploadFiles, "success")
              /\ \A i \in 1..Len(uploadFiles) :
                    uploadFiles[i].status = "uploading" =>
                        \E j \in 1..Len(uploadFiles') :
                            uploadFiles'[j] = uploadFiles[i]
              /\ documents' = documents
              /\ selectedDocument' = selectedDocument]_vars

\* a bulk clear dropped a completed entry while another file, part-way
\* through, stayed in the list, and the completed file's document is stored
C13_Witness ==
    /\ upEv.op = "update" /\ upEv.kind = "clear" /\ upEv.dropped = 1
    /\ Len(uploadFiles) = 1
    /\ uploadFiles[1].status = "uploading" /\ uploadFiles[1].progress > 0
    /\ \E k \in 1..Len(picked) :
          UploadId(k) # uploadFiles[1].id /\ CountId(documents, UploadId(k)) = 1

\* a single entry was removed and its document is still stored
C13_WitnessRemove ==
    /\ upEv.op = "update" /\ upEv.kind = "remove" /\ upEv.dropped = 1
    /\ CountId(uploadFiles, upEv.id) = 0
    /\ CountId(documents, upEv.id) = 1

(***************************************************************************)
(* Document list claims.                                                   *)
(***************************************************************************)
\* the two characters are one letter, in either case, or the same character
SameLetter(a, b) ==
    \/ a = b
    \/ \E i \in 1..Len(UpperLetters) :
          {a, b} = {SubSeq(UpperLetters, i, i), SubSeq(LowerLetters, i, i)}

\* term occurs in s at some offset, letters compared without regard to case
ContainsIgnoringCase(s, term) ==
    \E k \in 0..(Len(s) - Len(term)) :
        \A j \in 1..Len(term) :
            SameLetter(SubSeq(s, k + j, k + j), SubSeq(term, j, j))

\* the record satisfies the search term and the type filter in force
Matching(doc) ==
    /\ \/ ContainsIgnoringCase(doc.name, searchTerm)
       \/ ContainsIgnoringCase(doc.uploader, searchTerm)
       \/ /\ doc.clientCase # Null
          /\ ContainsIgnoringCase(doc.clientCase[1], searchTerm)
    /\ (filterType = "all" \/ filterType = doc.type)

\* how many times the record occurs in the sequence
Occurrences(s, doc) == Cardinality({i \in 1..Len(s) : s[i] = doc})

\* year, month and day of a 'YYYY-MM-DD' string
DateParts(d) ==
    <<DigitsValue(SubSeq(d, 1, 4)), DigitsValue(SubSeq(d, 6, 7)),
      DigitsValue(SubSeq(d, 9, 10))>>

\* a is not later than b
NotLater(a, b) ==
    LET x == DateParts(a)
        y == DateParts(b)
    IN  \/ x[1] < y[1]
        \/ x[1] = y[1] /\ x[2] < y[2]
        \/ x[1] = y[1] /\ x[2] = y[2] /\ x[3] <= y[3]

\* a's sort key is not greater than b's (text keys in collation order)
KeyNotGreater(a, b) ==
    CASE sortBy = "name" -> LocaleCompare(a.name, b.name) <= 0
      [] sortBy = "date" -> NotLater(a.uploadDate, b.uploadDate)
      [] sortBy = "uploader" -> LocaleCompare(a.uploader, b.uploader) <= 0

\* C14: a document of the collection is in the derived list if and only if
\* its name, uploader or clientCase contains the search term without regard
\* to case (an absent clientCase matching nothing) and the type filter is
\* 'all' or equals its type; with an empty term and filter 'all' every
\* document of the collection is in the list.
C14_ListedIffMatching ==
    LET list == filteredDocuments
    IN  /\ \A i \in 1..Len(documents) :
              Occurrences(list, documents[i]) > 0 <=> Matching(documents[i])
        /\ \A i \in 1..Len(list) : Occurrences(documents, list[i]) > 0
        /\ (searchTerm = "" /\ filterType = "all") =>
              \A i \in 1..Len(documents) :
                  Occurrences(list, documents[i]) > 0

\* the search is SMITH: the record whose uploader is Jane Smith is listed,
\* an uploaded record without clientCase is not
C14_Witness ==
    /\ searchTerm = "SMITH" /\ filterType = "all"
    /\ \E i \in 1..Len(filteredDocuments) :
          filteredDocuments[i].uploader = "Jane Smith"
    /\ \E i \in 1..Len(documents) :
          /\ documents[i].clientCase = Null
          /\ Occurrences(filteredDocuments, documents[i]) = 0

\* C15: the derived list is a permutation of the matching documents, ordered
\* by the active sort key: non-decreasing when the direction is ascending,
\* non-increasing when it is descending.
C15_ListIsSortedPermutation ==
    LET list == filteredDocuments
        matching == {i \in 1..Len(documents) : Matching(documents[i])}
    IN  /\ \A i \in 1..Len(documents) :
              Occurrences(list, documents[i]) =
                  IF i \in matching
                  THEN Occurrences(documents, documents[i]) ELSE 0
        /\ Len(list) = Cardinality(matching)
        /\ \A i \in 1..Len(list) :
              \A j \in (i + 1)..Len(list) :
                  IF sortOrder = "asc"
                  THEN KeyNotGreater(list[i], list[j])
                  ELSE KeyNotGreater(list[j], list[i])

\* all five records listed by name, descending: the uploaded notes.doc comes
\* second, between Witness... and Motion...
C15_Witness ==
    /\ sortBy = "name" /\ sortOrder = "desc"
    /\ Len(filteredDocuments) = 5
    /\ filteredDocuments[1].id = "4"
    /\ filteredDocuments[2].name = "notes.doc"
    /\ filteredDocuments[3].id = "3"

C17_SortToggle ==
    [][listEv'.op = "handleSort" =>
          /\ IF listEv'.arg = sortBy
             THEN /\ sortBy' = sortBy
                  /\ sortOrder = "asc" => sortOrder' = "desc"
                  /\ sortOrder = "desc" => sortOrder' = "asc"
             ELSE /\ sortBy' = listEv'.arg
                  /\ sortOrder' = "asc"
          /\ searchTerm' = searchTerm
          /\ filterType' = filterType]_vars

\* another column was clicked while the direction was descending
C17_Witness ==
    /\ listEv.op = "handleSort"
    /\ listEv.arg # listEv.prevBy /\ listEv.prevOrder = "desc"
    /\ sortBy = listEv.arg /\ sortOrder = "asc"

\* the active column was clicked while the direction was descending
C17_WitnessFlip ==
    /\ listEv.op = "handleSort"
    /\ listEv.arg = listEv.prevBy /\ listEv.prevOrder = "desc"
    /\ sortBy = listEv.arg /\ sortOrder = "asc"

(***************************************************************************)
(* Document preview claims.                                                *)
(***************************************************************************)
\* C18: the zoom starts at 1.0 and after any sequence of zoom actions lies
\* within [0.5, 3.0]; zooming in from 1.0 without interruption, the zoom is
\* below 3.0 before the 10th zoom-in, 3.0 at the 10th and 3.0 at every
\* further one.
C18_ZoomWithinBounds ==
    /\ DoubleLE(Half, scale) /\ DoubleLE(scale, Three)
    /\ prevEv.streak = 0 => scale = One
    /\ (prevEv.streak > 0 /\ prevEv.streak < 10) =>
           (scale # Three /\ ~DoubleLE(scale, One))
    /\ prevEv.streak >= 10 => scale = Three

\* more than ten zoom-ins in a row from 1.0: the zoom is at the ceiling
C18_Witness ==
    /\ prevEv.op = "handleZoomIn"
    /\ prevEv.streak > 10
    /\ scale = Three

\* zoom-outs have brought the zoom to the floor
C18_WitnessFloor ==
    /\ prevEv.op = "handleZoomOut"
    /\ scale = Half

\* C19: whatever previews were opened, loaded, paged through and closed, the
\* page number shown for the PDF being previewed is within 1 and that
\* file's page count; a page count kept from a file previewed earlier does
\* not let it go beyond.
C19_PageWithinCurrentDocument ==
    (selectedDocument # Null /\ selectedDocument[1].type = "pdf") =>
        (pageNumber >= 1 /\ pageNumber <= FilePages)

C20_WitnessFailed ==
    /\ prevEv.op = "handlePreview"
    /\ prevEv.atClose # Null
    /\ prevEv.atClose[1].failed
    /\ selectedDocument # Null
    /\ ~pdfError

\* ------------------------------------------------------------------------
\* Calendar invariants
\* ------------------------------------------------------------------------

\* C21: no two records of the appointment collection have the same id,
\* whatever creations, edits and deletes produced the collection and
\* whatever the clock returned when an id was synthesized.
C21_AppointmentIdsUnique ==
    \A i, j \in 1..Len(appointments) :
        i # j => appointments[i].id # appointments[j].id

\* C22: every record of the appointment collection ends strictly after it
\* starts, both dates being valid dates.
C22_EveryRecordEndsAfterStart ==
    \A i \in 1..Len(appointments) :
        StrictlyAfter(appointments[i].end, appointments[i].start)

\* ------------------------------------------------------------------------
\* Selection of the document store (checked under DocSpec)
\* ------------------------------------------------------------------------

\* the selection is empty or a record whose id the collection holds
SelectionInCollection(selected, docs) ==
    selected = Null \/ selected[1].id \in IdsOf(docs)

\* C23: the selected document is always null or a record whose id is in the
\* document collection; a step gives the selection a new record only by a
\* preview of a row of the list, a delete of the selected record's id clears
\* it, and closing the preview clears it.
C23_SelectionIsInTheCollection ==
    /\ []SelectionInCollection(selectedDocument, documents)
    /\ [][/\ (selectedDocument' # Null /\ selectedDocument' # selectedDocument)
                 => /\ docEv'.op = "handlePreview"
                    /\ \E i \in 1..Len(documents) :
                          selectedDocument' = Some(documents[i])
          /\ (DocDeleteStep /\ selectedDocument # Null
                /\ selectedDocument[1].id = docEv'.arg)
                 => selectedDocument' = Null
          /\ docEv'.op = "handleClose" => selectedDocument' = Null]_vars

\* the selected record was deleted while other records stayed, and the
\* selection is empty
C23_Witness ==
    /\ docEv.op = "deleteDocument"
    /\ docEv.selectedBefore # Null
    /\ docEv.selectedBefore[1].id = docEv.arg
    /\ docEv.arg \notin IdsOf(documents)
    /\ documents # <<>>
    /\ selectedDocument = Null

\* a record is selected while another record has been deleted
C23_WitnessSelected ==
    /\ docEv.op = "deleteDocument"
    /\ selectedDocument # Null
    /\ selectedDocument[1].id \in IdsOf(documents)
    /\ selectedDocument[1].id # docEv.arg

\* ------------------------------------------------------------------------
\* Progress and status of the tracking entries (checked under UpSpec)
\* ------------------------------------------------------------------------

\* C25: whatever selections, drops, interval firings, removals and
\* bulk-clears have happened, every tracking entry has status uploading or
\* success: none has status error.
C25_NoEntryHasStatusError ==
    \A i \in 1..Len(uploadFiles) :
        /\ uploadFiles[i].status # "error"
        /\ uploadFiles[i].status \in {"uploading", "success"}

\* a bulk-clear dropped a completed entry and left one that is under way
C25_Witness ==
    /\ upEv.op = "update" /\ upEv.kind = "clear" /\ upEv.dropped >= 1
    /\ \E i \in 1..Len(uploadFiles) :
          /\ uploadFiles[i].status = "uploading"
          /\ uploadFiles[i].progress > 0

\* a completed entry is tracked next to one that is under way
C25_WitnessBoth ==
    /\ \E i \in 1..Len(uploadFiles) : uploadFiles[i].status = "success"
    /\ \E i \in 1..Len(uploadFiles) : uploadFiles[i].status = "uploading"

\* ------------------------------------------------------------------------
\* Metadata of an uploaded document (checked under MetaSpec)
\* ------------------------------------------------------------------------

\* the position among the picked files of the file with this upload id
PickedIndex(id) == CHOOSE k \in 1..Len(picked) : UploadId(k) = id

\* C27: the uploader, tags and clientCase of the record inserted when an
\* upload completes are the values the metadata form held when the file was
\* selected or dropped, whatever the form holds when the upload completes.
C27_RecordCarriesMetadataOfSelection ==
    [][/\ upEv'.op = "handleFileSelect" =>
              /\ Len(closureMetadata') = Len(picked')
              /\ \A k \in (Len(picked) + 1)..Len(picked') :
                    closureMetadata'[k] = metadata
              /\ \A k \in 1..Len(picked) :
                    closureMetadata'[k] = closureMetadata[k]
       /\ (upEv'.op = "update" /\ upEv'.added >= 1) =>
              LET entered == closureMetadata[PickedIndex(upEv'.id)]
                  inserted == documents'[1]
              IN  /\ inserted.id = upEv'.id
                  /\ inserted.uploader = entered.uploader
                  /\ inserted.tags = TagsOf(entered.tags)
                  /\ inserted.clientCase =
                        IF entered.clientCase = "" THEN Null
                        ELSE Some(entered.clientCase)
       /\ upEv'.op = "setMetadata" =>
              /\ closureMetadata' = closureMetadata
              /\ documents' = documents]_vars

\* an upload has completed after all three fields were changed back to
\* their initial values while it was in progress: the record has the values
\* entered before the file was selected
C27_Witness ==
    /\ upEv.op = "update" /\ upEv.added = 1
    /\ metadata = DefaultMetadata
    /\ documents[1].id = upEv.id
    /\ documents[1].uploader = "Ann Lee"
    /\ documents[1].tags = <<"Contract", "Evidence">>
    /\ documents[1].clientCase = Some("Smith v. Jones")

\* an upload selected with the initial values has completed after the
\* fields were filled in
C27_WitnessDefaults ==
    /\ upEv.op = "update" /\ upEv.added = 1
    /\ metadata = [uploader |-> "Ann Lee", tags |-> "Contract, Evidence",
                   clientCase |-> "Smith v. Jones"]
    /\ documents[1].id = upEv.id
    /\ documents[1].uploader = "Current User"
    /\ documents[1].tags = <<>>
    /\ documents[1].clientCase = Null

\* ------------------------------------------------------------------------
\* Independence of the upload timers (checked under UpSpec)
\* ------------------------------------------------------------------------

\* the tracking entry of a file that is alone in the list, ticked until it
\* completes
RECURSIVE TickedUntilComplete(_)
TickedUntilComplete(uf) ==
    IF uf.status = "success" THEN uf
    ELSE TickedUntilComplete(TickedFiles(<<uf>>, uf.id)[1])

\* the final tracking entry of the n-th picked file had it been uploaded
\* alone, and the document inserted for it
AloneEntry(n) ==
    TickedUntilComplete(UploadFile(UploadId(n), picked[n]))

AloneDocument(n) ==
    NewDocument(UploadFile(UploadId(n), picked[n]), closureMetadata[n])

\* C26: a processed timer tick of one file changes only that file's tracking
\* entry, by the step the file would take alone, and inserts a document only
\* when that file reaches 100%, and then only that file's document at the
\* front of the store; in every interleaving each completed entry and each
\* inserted document equals the one of the file uploaded alone.
C26_TimersAreIndependent ==
    /\ [](\A n \in 1..Len(picked) :
            /\ \A i \in 1..Len(uploadFiles) :
                  (uploadFiles[i].id = UploadId(n)
                     /\ uploadFiles[i].status = "success")
                      => uploadFiles[i] = AloneEntry(n)
            /\ \A j \in 1..Len(documents) :
                  documents[j].id = UploadId(n)
                      => documents[j] = AloneDocument(n))
    /\ [][UpdateStep("tick") =>
             /\ Len(uploadFiles') = Len(uploadFiles)
             /\ \A i \in 1..Len(uploadFiles) :
                   IF uploadFiles[i].id = upEv'.id
                   THEN uploadFiles'[i] =
                            TickedFiles(<<uploadFiles[i]>>, upEv'.id)[1]
                   ELSE uploadFiles'[i] = uploadFiles[i]
             /\ \/ documents' = documents
                \/ /\ ReachedFull(uploadFiles', upEv'.id)
                   /\ documents' =
                          <<AloneDocument(PickedIndex(upEv'.id))>> \o documents
             /\ intervals' \subseteq intervals
             /\ intervals \ intervals' \subseteq {upEv'.id}]_vars

\* two files were uploading at the same time with their ticks interleaved;
\* the first file has just completed, after the second one
C26_Witness ==
    /\ upEv.op = "update" /\ upEv.kind = "tick" /\ upEv.added = 1
    /\ upEv.id = "u1"
    /\ Len(uploadFiles) = 2
    /\ uploadFiles[1] = AloneEntry(1) /\ uploadFiles[2] = AloneEntry(2)
    /\ documents[1] = AloneDocument(1) /\ documents[2] = AloneDocument(2)

\* the same two files, the second one completing after the first
C26_WitnessOtherOrder ==
    /\ upEv.op = "update" /\ upEv.kind = "tick" /\ upEv.added = 1
    /\ upEv.id = "u2"
    /\ Len(uploadFiles) = 2
    /\ uploadFiles[1] = AloneEntry(1) /\ uploadFiles[2] = AloneEntry(2)
    /\ documents[1] = AloneDocument(2) /\ documents[2] = AloneDocument(1)

\* a tick of the second file was processed while the first one was part-way
C26_WitnessInterleaved ==
    /\ upEv.op = "update" /\ upEv.kind = "tick" /\ upEv.id = "u2"
    /\ Len(uploadFiles) = 2
    /\ uploadFiles[1].progress = 50 /\ uploadFiles[2].progress = 30

\* ------------------------------------------------------------------------
\* Progress of an upload (checked under UpFairSpec)
\* ------------------------------------------------------------------------

\* the tracking list holds the file of this id with status uploading
Uploading(id) ==
    \E i \in 1..Len(uploadFiles) :
        uploadFiles[i].id = id /\ uploadFiles[i].status = "uploading"

\* the tracking list holds the file of this id at 100% with status success
\* and the store holds its document
Completed(id) ==
    /\ \E i \in 1..Len(uploadFiles) :
          /\ uploadFiles[i].id = id
          /\ uploadFiles[i].progress = 100
          /\ uploadFiles[i].status = "success"
    /\ CountId(documents, id) >= 1

\* C24: an accepted file's entry starts with progress 0 and status
\* uploading; while it is tracked its progress never decreases, and a
\* processed timer tick raises it by 10 until it is 100; status is success
\* exactly when progress is 100; and with its timer and the processing of
\* updates scheduled fairly, the file eventually is at progress 100 with
\* status success and its document in the store.
C24_UploadProgressesToSuccess ==
    /\ [](\A i \in 1..Len(uploadFiles) :
            /\ uploadFiles[i].progress \in 0..100
            /\ uploadFiles[i].status = "success"
                   <=> uploadFiles[i].progress = 100)
    /\ [][/\ upEv'.op = "handleFileSelect" =>
                 /\ Len(uploadFiles') =
                        Len(uploadFiles) + Len(picked') - Len(picked)
                 /\ \A i \in 1..Len(uploadFiles') :
                       IF i <= Len(uploadFiles)
                       THEN uploadFiles'[i] = uploadFiles[i]
                       ELSE /\ uploadFiles'[i].progress = 0
                            /\ uploadFiles'[i].status = "uploading"
          /\ \A i \in 1..Len(uploadFiles), j \in 1..Len(uploadFiles') :
                 uploadFiles'[j].id = uploadFiles[i].id =>
                     uploadFiles'[j].progress >= uploadFiles[i].progress
          /\ UpdateStep("tick") =>
                 \A i \in 1..Len(uploadFiles) :
                     uploadFiles[i].id = upEv'.id =>
                         uploadFiles'[i].progress =
                             IF uploadFiles[i].progress < 100
                             THEN uploadFiles[i].progress + 10
                             ELSE 100]_vars
    /\ \A n \in 1..MaxUploads :
          Uploading(UploadId(n)) ~> Completed(UploadId(n))

\* the second of two files dropped together has just reached 100% after
\* the first one, both documents being in the store
C24_Witness ==
    /\ upEv.op = "update" /\ upEv.kind = "tick" /\ upEv.added = 1
    /\ upEv.id = "u2"
    /\ Completed("u1") /\ Completed("u2")
    /\ intervals = {}

\* a file is part-way: its entry is uploading at 50%
C24_WitnessPartWay ==
    /\ upEv.op = "update" /\ upEv.kind = "tick"
    /\ \E i \in 1..Len(uploadFiles) :
          /\ uploadFiles[i].id = upEv.id
          /\ uploadFiles[i].progress = 50
          /\ uploadFiles[i].status = "uploading"

====
